---- MODULE Spec2Model ----
(***************************************************************************)
(* A model of app/main.py: a retrieval-augmented question-answering        *)
(* script.  Python strings are sequences of one-character strings, Python  *)
(* lists are sequences, list indices are 0-based as in the source.         *)
(***************************************************************************)
EXTENDS Integers, Sequences, FiniteSets, TLC

VARIABLES
    pc,              \* the statement the program is at
    bnb_args,        \* init_bnb_config: its four arguments
    bnb_config,      \* init_bnb_config: what it raised or returned
    model,           \* __main__: the pipeline init_model returned
    directory,       \* user_documents: the entries of the directory at the path given
    ext_i,           \* user_documents: position in file_extensions (0-based)
    files,           \* user_documents: the globbed file names
    file_i,          \* user_documents: position in files (0-based)
    documents,       \* user_documents: the loaded documents
    loads,           \* every loader call made, in order
    chunked,         \* user_documents: its return value
    db,              \* __main__: the FAISS index
    query,           \* __main__: the query typed; llm: question
    reads,           \* how many queries were read so far
    stdout,          \* what print() wrote
    docs,            \* llm: the similarity search's result
    searched,        \* the question each similarity search was made for, in order
    contents,        \* llm: pre_rerank's result; rerank: its argument
    scores,          \* rerank: the cross-encoder's scores
    sorted_indices,  \* rerank: np.argsort(scores)
    top3_indices,    \* rerank: sorted_indices[-3:][::-1]
    context,         \* rerank: its return value; llm: context
    template,        \* llm: the concatenated template text
    prompt,          \* llm: ChatPromptTemplate.from_template(template)
    sent,            \* every prompt text the model was invoked on, in order
    result,          \* __main__: what llm returned
    log              \* the steps taken for the current query, in order

vars == <<pc, bnb_args, bnb_config, model, directory, ext_i, files, file_i,
          documents, loads, chunked, db, query, reads, stdout, docs, searched,
          contents, scores, sorted_indices, top3_indices, context, template,
          prompt, sent, result, log>>

bnbVars  == <<bnb_args, bnb_config>>
udVars   == <<directory, ext_i, files, file_i, documents, loads, chunked>>
mainVars == <<model, db, query, reads, stdout, result>>
llmVars  == <<docs, searched, contents, context, template, prompt, sent, log>>
rrVars   == <<scores, sorted_indices, top3_indices>>

-----------------------------------------------------------------------------
(* Bounds of the model.                                                    *)

MaxQueries == 2      \* queries typed in one run
MaxFiles   == 3      \* entries of a directory
MaxRot     == 1      \* rankings the vector store may give one question
MaxCand    == 4      \* candidates whose scores are enumerated exhaustively
MaxScore   == 2      \* scores are 0..MaxScore
MaxDocs    == 3      \* documents handed to pre_rerank
MaxLen     == 3      \* length of the enumerated strings
BigPages   == 26     \* pages of the largest PDF

-----------------------------------------------------------------------------
(* Strings.                                                                *)

RECURSIVE Flatten(_)
Flatten(ss) == IF ss = <<>> THEN <<>> ELSE Head(ss) \o Flatten(Tail(ss))

RECURSIVE StrsUpTo(_, _)
StrsUpTo(alphabet, n) ==
    IF n = 0 THEN {<<>>}
    ELSE LET shorter == StrsUpTo(alphabet, n - 1)
         IN  shorter \cup {Append(s, c) : s \in shorter, c \in alphabet}

EndsWith(s, suffix) ==
    /\ Len(s) >= Len(suffix)
    /\ SubSeq(s, Len(s) - Len(suffix) + 1, Len(s)) = suffix

\* sub occurs in s starting at position p (1-based)
OccursAt(s, sub, p) ==
    /\ p >= 1
    /\ p + Len(sub) - 1 <= Len(s)
    /\ SubSeq(s, p, p + Len(sub) - 1) = sub

Reverse(s) == [i \in 1..Len(s) |-> s[Len(s) + 1 - i]]

RECURSIVE SeqsOf(_)
\* every enumeration of the finite set S
SeqsOf(S) ==
    IF S = {} THEN {<<>>}
    ELSE UNION {{<<x>> \o rest : rest \in SeqsOf(S \ {x})} : x \in S}

-----------------------------------------------------------------------------
(* Python values, as far as isinstance() looks at them: a value is its     *)
(* class and its printed form.                                             *)

PyTrue     == [type |-> "bool", repr |-> "True"]
PyFalse    == [type |-> "bool", repr |-> "False"]
PyOne      == [type |-> "int", repr |-> "1"]
PyNone     == [type |-> "NoneType", repr |-> "None"]
PyNf4      == [type |-> "str", repr |-> "'nf4'"]
PyBfloat16 == [type |-> "str", repr |-> "'bfloat16'"]
PyNpStr    == [type |-> "numpy.str_", repr |-> "numpy.str_('fp4')"]
PyFloatCls == [type |-> "type", repr |-> "<class 'float'>"]
PyDtype    == [type |-> "torch.dtype", repr |-> "torch.bfloat16"]

PyValues == {PyTrue, PyFalse, PyOne, PyNone, PyNf4, PyBfloat16, PyNpStr,
             PyFloatCls, PyDtype}

\* the classes a class inherits from, itself included
Mro(cls) ==
    CASE cls = "bool"       -> {"bool", "int", "object"}
      [] cls = "numpy.str_" -> {"numpy.str_", "str", "object"}
      [] OTHER              -> {cls, "object"}

\* isinstance(value, classes), classes a class or a tuple of classes
IsInstance(value, classes) == Mro(value.type) \cap classes # {}

\* the defaults of init_bnb_config's parameters
BnbDefaults ==
    [load_in_4bit |-> PyTrue, bnb_4bit_quant_type |-> PyNf4,
     bnb_4bit_use_double_quant |-> PyTrue, bnb_4bit_compute_dtype |-> PyBfloat16]

BnbArgSets ==
    [load_in_4bit : PyValues, bnb_4bit_quant_type : PyValues,
     bnb_4bit_use_double_quant : PyValues, bnb_4bit_compute_dtype : PyValues]

BnbPending == [outcome |-> "pending", message |-> "", constructed |-> <<>>,
               returned |-> <<>>]

BnbRaise(message) ==
    /\ bnb_config' = [bnb_config EXCEPT !.outcome = "ValueError",
                                        !.message = message]
    /\ pc' = "bnb_raised"

LoadIn4bitOk == IsInstance(bnb_args.load_in_4bit, {"bool"})
QuantTypeOk == IsInstance(bnb_args.bnb_4bit_quant_type, {"str"})
DoubleQuantOkInt == IsInstance(bnb_args.bnb_4bit_use_double_quant, {"int"})
DoubleQuantOk == IsInstance(bnb_args.bnb_4bit_use_double_quant, {"bool"})
ComputeDtypeOk == IsInstance(bnb_args.bnb_4bit_compute_dtype, {"type", "str"})

BnbCheckLoadIn4bit ==
    /\ pc = "bnb_check_load_in_4bit"
    /\ IF ~LoadIn4bitOk
       THEN BnbRaise("load_in_4bit must be a boolean value.")
       ELSE pc' = "bnb_check_quant_type" /\ UNCHANGED bnb_config
    /\ UNCHANGED <<bnb_args, udVars, mainVars, llmVars, rrVars>>

BnbCheckQuantType ==
    /\ pc = "bnb_check_quant_type"
    /\ IF ~QuantTypeOk
       THEN BnbRaise("bnb_4bit_quant_type must be a string.")
       ELSE pc' = "bnb_check_double_quant" /\ UNCHANGED bnb_config
    /\ UNCHANGED <<bnb_args, udVars, mainVars, llmVars, rrVars>>

BnbCheckDoubleQuant ==
    /\ pc = "bnb_check_double_quant"
    /\ IF ~DoubleQuantOk
       THEN BnbRaise("bnb_4bit_use_double_quant must be a boolean value.")
       ELSE pc' = "bnb_check_compute_dtype" /\ UNCHANGED bnb_config
    /\ UNCHANGED <<bnb_args, udVars, mainVars, llmVars, rrVars>>

BnbCheckComputeDtype ==
    /\ pc = "bnb_check_compute_dtype"
    /\ IF ~ComputeDtypeOk
       THEN BnbRaise("bnb_4bit_compute_dtype must be a valid data type.")
       ELSE pc' = "bnb_construct" /\ UNCHANGED bnb_config
    /\ UNCHANGED <<bnb_args, udVars, mainVars, llmVars, rrVars>>

\* transformers.BitsAndBytesConfig(...) and the return
BnbConstruct ==
    /\ pc = "bnb_construct"
    /\ bnb_config' = [outcome |-> "returned", message |-> "",
                      constructed |-> <<bnb_args>>, returned |-> <<bnb_args>>]
    /\ pc' = "bnb_returned"
    /\ UNCHANGED <<bnb_args, udVars, mainVars, llmVars, rrVars>>

-----------------------------------------------------------------------------
(* user_documents.  A directory is the set of the names of its entries; a  *)
(* file name is a string.                                                  *)

APdf      == <<"a", ".", "p", "d", "f">>
BPdf      == <<"b", ".", "p", "d", "f">>
CDocx     == <<"c", ".", "d", "o", "c", "x">>
DDoc      == <<"d", ".", "d", "o", "c">>
ETxt      == <<"e", ".", "t", "x", "t">>
FXlsx     == <<"f", ".", "x", "l", "s", "x">>
GPptx     == <<"g", ".", "p", "p", "t", "x">>
HiddenPdf == <<".", "h", ".", "p", "d", "f">>
DotDocx   == <<".", "d", "o", "c", "x">>
IMd       == <<"i", ".", "m", "d">>
JUpperPdf == <<"j", ".", "P", "D", "F">>
KDocBak   == <<"k", ".", "d", "o", "c", ".", "b", "a", "k">>
LNoDot    == <<"l", "d", "o", "c">>
ZPdf      == <<"z", ".", "p", "d", "f">>

NamePool == {APdf, BPdf, CDocx, DDoc, ETxt, FXlsx, GPptx, HiddenPdf, DotDocx,
             IMd, JUpperPdf, KDocBak, LNoDot}

Directories == {d \in SUBSET NamePool : Cardinality(d) <= MaxFiles}

\* the directories the interactive program is run on
MainDirectories == {{APdf}, {BPdf, DDoc, HiddenPdf}, {ZPdf, ETxt}}

ExtPdf  == <<".", "p", "d", "f">>
ExtDocx == <<".", "d", "o", "c", "x">>
ExtDoc  == <<".", "d", "o", "c">>
ExtTxt  == <<".", "t", "x", "t">>
ExtXlsx == <<".", "x", "l", "s", "x">>
ExtPptx == <<".", "p", "p", "t", "x">>

file_extensions == <<ExtPdf, ExtDocx, ExtDoc, ExtTxt, ExtXlsx, ExtPptx>>

\* the keys of the dict loaders
LoaderKeys == {ExtPdf, ExtDocx, ExtDoc, ExtTxt, ExtXlsx, ExtPptx}

loaders(extension) ==
    CASE extension = ExtPdf  -> "PyPDFLoader"
      [] extension = ExtDocx -> "Docx2txtLoader"
      [] extension = ExtDoc  -> "Docx2txtLoader"
      [] extension = ExtTxt  -> "TextLoader"
      [] extension = ExtXlsx -> "UnstructuredExcelLoader"
      [] extension = ExtPptx -> "UnstructuredPowerPointLoader"

\* glob's rule for a pattern that does not itself start with a dot
IsHidden(name) == Len(name) > 0 /\ name[1] = "."

GlobAll(entries, extension) == {name \in entries : EndsWith(name, extension)}

\* glob.glob(os.path.join(directory, '*' + extension)): the entries the pattern
\* matches, as a set (glob returns them in the order the directory lists them)
Glob(entries, extension) ==
    {name \in entries : ~IsHidden(name) /\ EndsWith(name, extension)}

LastDot(name) ==
    LET dots == {i \in 1..Len(name) : name[i] = "."}
    IN  IF dots = {} THEN 0 ELSE CHOOSE i \in dots : \A j \in dots : j <= i

\* os.path.splitext(file)[1]: from the last dot on, unless only dots precede it
Splitext(name) ==
    LET dotIndex == LastDot(name)
    IN  IF dotIndex > 0 /\ \E i \in 1..(dotIndex - 1) : name[i] # "."
        THEN SubSeq(name, dotIndex, Len(name))
        ELSE <<>>

Digit(n) == <<"0", "1", "2", "3", "4", "5", "6", "7", "8", "9">>[n + 1]

\* The text of each document a loader returns for a file (one per page of a
\* PDF).  The texts hold no blank line and no outer white space.
PageTexts(name) ==
    CASE name = ZPdf -> [i \in 1..BigPages |-> <<"z", Digit(i \div 10), Digit(i % 10)>>]
      [] name = BPdf -> << <<"b", "1">>, <<"b", "2">> >>
      [] name = DDoc -> << <<"{", "d", "}">> >>
      [] OTHER       -> << <<name[1]>> >>

\* loader(file).load()
Load(loader, file) ==
    [i \in 1..Len(PageTexts(file)) |->
        [page_content |-> PageTexts(file)[i], source |-> file, loader |-> loader]]

\* CharacterTextSplitter(chunk_size=1000, chunk_overlap=0).split_documents: a
\* text without the separator (a blank line) stays one chunk
SplitDocuments(documentList) ==
    [i \in 1..Len(documentList) |->
        [page_content |-> documentList[i].page_content,
         source |-> documentList[i].source]]

GlobStep ==
    /\ pc = "ud_glob"
    /\ ext_i < Len(file_extensions)
    /\ \E found \in SeqsOf(Glob(directory, file_extensions[ext_i + 1])) :
          files' = files \o found
    /\ ext_i' = ext_i + 1
    /\ pc' = IF ext_i + 1 = Len(file_extensions) THEN "ud_load" ELSE "ud_glob"
    /\ UNCHANGED <<directory, file_i, documents, loads, chunked>>
    /\ UNCHANGED <<bnbVars, mainVars, llmVars, rrVars>>

LoadStep ==
    /\ pc = "ud_load"
    /\ file_i < Len(files)
    /\ LET file == files[file_i + 1]
           file_extension == Splitext(file)
       IN  IF file_extension \in LoaderKeys
           THEN /\ documents' = documents \o Load(loaders(file_extension), file)
                /\ loads' = Append(loads, [loader |-> loaders(file_extension),
                                           file |-> file])
           ELSE UNCHANGED <<documents, loads>>
    /\ file_i' = file_i + 1
    /\ UNCHANGED <<pc, directory, ext_i, files, chunked>>
    /\ UNCHANGED <<bnbVars, mainVars, llmVars, rrVars>>

SplitStep ==
    /\ pc = "ud_load"
    /\ file_i = Len(files)
    /\ chunked' = SplitDocuments(documents)
    /\ pc' = "ud_return"
    /\ UNCHANGED <<directory, ext_i, files, file_i, documents, loads>>
    /\ UNCHANGED <<bnbVars, mainVars, llmVars, rrVars>>

-----------------------------------------------------------------------------
(* pre_rerank and rerank.                                                  *)

K    == 25     \* similarity_search(question, k=25)
TopN == 3      \* sorted_indices[-3:]

Min(a, b) == IF a <= b THEN a ELSE b
Max(a, b) == IF a >= b THEN a ELSE b

Rotate(s, r) == [i \in 1..Len(s) |-> s[((i - 1 + r) % Len(s)) + 1]]

\* data_base.similarity_search(question, k): the k nearest chunks of the index
\* (all of them when it holds fewer), nearest first; which are nearest is the
\* embedding's matter, here any of a few rankings of the index
SimilaritySearch(index, k) ==
    {SubSeq(Rotate(index, r), 1, Min(k, Len(index))) :
        r \in 0..Min(MaxRot, Max(Len(index) - 1, 0))}

RECURSIVE PreRerankReversed(_, _)
PreRerankReversed(docList, question) ==
    IF docList = <<>> THEN <<>>
    ELSE PreRerankReversed(Tail(docList), question)
            \o << <<question, Head(docList).page_content>> >>

RECURSIVE pre_rerank(_, _)
\* [[question, data.page_content] for data in docs]
pre_rerank(docList, question) ==
    IF docList = <<>> THEN <<>>
    ELSE << <<question, Head(docList).page_content>> >>
            \o pre_rerank(Tail(docList), question)

\* The scores the cross-encoder may give n candidates: every assignment of
\* 0..MaxScore to a short list, two assignments without ties to a long one.
ScoreChoices(n) ==
    IF n <= MaxCand THEN [1..n -> 0..MaxScore]
    ELSE {[i \in 1..n |-> (i * seed) % 29] : seed \in {1, 4}}

RECURSIVE ArgSortFrom(_, _)
\* the ascending orders of the indices in left; equal scores come in any order
ArgSortFrom(left, scoreList) ==
    IF left = {} THEN {<<>>}
    ELSE UNION {{<<i>> \o rest : rest \in ArgSortFrom(left \ {i}, scoreList)} :
                i \in {j \in left : \A k \in left : scoreList[j + 1] <= scoreList[k + 1]}}

\* np.argsort(scores): 0-based indices
ArgSort(scoreList) == ArgSortFrom(0..(Len(scoreList) - 1), scoreList)

\* s[-n:]
SliceLast(s, n) == SubSeq(s, Max(Len(s) - n, 0) + 1, Len(s))

\* s[:n]
SliceFirst(s, n) == SubSeq(s, 1, Min(n, Len(s)))

Top3Lowest(sorted) == Reverse(SliceFirst(sorted, TopN))

TopAll(sorted) == Reverse(sorted)

\* sorted_indices[-3:][::-1]
Top3(sorted) == Reverse(SliceLast(sorted, TopN))

RECURSIVE ConcatContents(_, _, _)
\* for index in top3_indices: context += str(contents[index][1])
ConcatContents(acc, contentList, indices) ==
    IF indices = <<>> THEN acc
    ELSE ConcatContents(acc \o contentList[Head(indices) + 1][2], contentList,
                        Tail(indices))

-----------------------------------------------------------------------------
(* The prompt.                                                             *)

TemplateHead ==
    <<"A", "n", "s", "w", "e", "r", " ", "t", "h", "e", " ", "q", "u", "e",
      "s", "t", "i", "o", "n", " ", "b", "a", "s", "e", "d", " ", "o", "n",
      "l", "y", " ", "o", "n", " ", "t", "h", "e", " ", "c", "o", "n", "t",
      "e", "x", "t", ",", "\n", " ">>

TemplateMiddle ==
    <<" ", "\n", " ", " ", " ", " ", " ", " ", " ", " ", "\n", " ", " ", " ",
      " ", " ", " ", " ", " ", "Q", "u", "e", "s", "t", "i", "o", "n", ":",
      " ">>

TemplateTail ==
    <<" ", "\n", " ", " ", " ", " ", " ", " ", " ", " ", "A", "n", "s", "w",
      "e", "r", " ", "i", "n", " ", "F", "r", "e", "n", "c", "h", ":", "\n",
      " ", " ", " ", " ", " ", " ", " ", " ">>

QuestionKey == <<"q", "u", "e", "s", "t", "i", "o", "n">>

HumanPrefix == <<"H", "u", "m", "a", "n", ":", " ">>

BadFormat == [ok |-> FALSE, pieces |-> <<>>]

Cons(piece, rest) ==
    IF rest.ok THEN [ok |-> TRUE, pieces |-> <<piece>> \o rest.pieces] ELSE rest

MinOf(S) == CHOOSE x \in S : \A y \in S : x <= y

RECURSIVE ParseFormat(_, _)
\* string.Formatter().parse(t) from position i on: the text up to the next
\* brace is literal, "{{" and "}}" are the literal braces, "{name}" is a
\* replacement field, any other brace is a ValueError.
ParseFormat(t, i) ==
    LET braces == {j \in i..Len(t) : t[j] \in {"{", "}"}}
    IN  IF i > Len(t) THEN [ok |-> TRUE, pieces |-> <<>>]
        ELSE IF braces = {}
        THEN [ok |-> TRUE, pieces |-> <<[kind |-> "text", value |-> SubSeq(t, i, Len(t))]>>]
        ELSE IF MinOf(braces) > i
        THEN Cons([kind |-> "text", value |-> SubSeq(t, i, MinOf(braces) - 1)],
                  ParseFormat(t, MinOf(braces)))
        ELSE IF i < Len(t) /\ t[i + 1] = t[i]
        THEN Cons([kind |-> "text", value |-> <<t[i]>>], ParseFormat(t, i + 2))
        ELSE IF t[i] = "}" THEN BadFormat
        ELSE LET inner == {j \in (i + 1)..Len(t) : t[j] \in {"{", "}"}}
             IN  IF inner = {} THEN BadFormat
                 ELSE IF t[MinOf(inner)] = "{" THEN BadFormat
                 ELSE Cons([kind |-> "field",
                            value |-> SubSeq(t, i + 1, MinOf(inner) - 1)],
                           ParseFormat(t, MinOf(inner) + 1))

\* ChatPromptTemplate.from_template(template)
FromTemplate(t) == ParseFormat(t, 1)

InputVariables(pieces) ==
    {pieces[i].value : i \in {j \in 1..Len(pieces) : pieces[j].kind = "field"}}

\* the prompt formatted with {"question": question}
FormatPrompt(pieces, question) ==
    Flatten([i \in 1..Len(pieces) |->
                IF pieces[i].kind = "field" THEN question ELSE pieces[i].value])

Answers == {<<"O", "u", "i">>, <<"N", "o", "n">>}

Exit == <<"e", "x", "i", "t">>

\* what a user may type
Queries == {Exit, <<"E", "x", "i", "t">>, <<" ", "e", "x", "i", "t">>,
            <<"e", "x", "i", "t", " ">>, <<"q">>, <<"{", "q", "}">>}

-----------------------------------------------------------------------------
(* llm(question, data_base, model).                                        *)

\* docs = data_base.similarity_search(question, k=25)
SimilaritySearchStep ==
    /\ pc = "llm_search"
    /\ docs' \in SimilaritySearch(db.docs, K)
    /\ searched' = Append(searched, query)
    /\ log' = Append(log, "retrieve")
    /\ pc' = "llm_pre_rerank"
    /\ UNCHANGED <<contents, context, template, prompt, sent>>
    /\ UNCHANGED <<bnbVars, udVars, mainVars, rrVars>>

PreRerankStepSkipsRerank ==
    /\ pc = "llm_pre_rerank"
    /\ contents' = pre_rerank(docs, query)
    /\ log' = Append(log, "pre_rerank")
    /\ pc' = "llm_template"
    /\ UNCHANGED <<docs, searched, context, template, prompt, sent>>
    /\ UNCHANGED <<bnbVars, udVars, mainVars, rrVars>>

\* contents = pre_rerank(docs, question)
PreRerankStep ==
    /\ pc = "llm_pre_rerank"
    /\ contents' = pre_rerank(docs, query)
    /\ log' = Append(log, "pre_rerank")
    /\ pc' = "rerank_score"
    /\ UNCHANGED <<docs, searched, context, template, prompt, sent>>
    /\ UNCHANGED <<bnbVars, udVars, mainVars, rrVars>>

\* rerank: the tokenizer and the cross-encoder score each pair
RerankScoreStep ==
    /\ pc = "rerank_score"
    /\ scores' \in ScoreChoices(Len(contents))
    /\ pc' = "rerank_sort"
    /\ UNCHANGED <<sorted_indices, top3_indices>>
    /\ UNCHANGED <<bnbVars, udVars, mainVars, llmVars>>

\* rerank: argsort, the top three, the concatenation and the return
RerankSortStep ==
    /\ pc = "rerank_sort"
    /\ sorted_indices' \in ArgSort(scores)
    /\ top3_indices' = Top3(sorted_indices')
    /\ context' = ConcatContents(<<>>, contents, top3_indices')
    /\ log' = Append(log, "rerank")
    /\ pc' = "llm_template"
    /\ UNCHANGED <<scores, docs, searched, contents, template, prompt, sent>>
    /\ UNCHANGED <<bnbVars, udVars, mainVars>>

\* template = ... + context + ... + question + ...;
\* prompt = ChatPromptTemplate.from_template(template)
TemplateStep ==
    /\ pc = "llm_template"
    /\ template' = TemplateHead \o context \o TemplateMiddle \o query \o TemplateTail
    /\ prompt' = FromTemplate(template')
    /\ IF prompt'.ok
       THEN pc' = "llm_invoke" /\ log' = Append(log, "prompt")
       ELSE pc' = "crashed" /\ UNCHANGED log
    /\ UNCHANGED <<docs, searched, contents, context, sent>>
    /\ UNCHANGED <<bnbVars, udVars, mainVars, rrVars>>

\* chain.invoke(question): the prompt is formatted with {"question": question}
\* (a KeyError when it names another variable), the model answers, and llm returns
InvokeStep ==
    /\ pc = "llm_invoke"
    /\ IF InputVariables(prompt.pieces) \subseteq {QuestionKey}
       THEN /\ sent' = Append(sent, HumanPrefix \o FormatPrompt(prompt.pieces, query))
            /\ result' \in Answers
            /\ log' = Append(log, "model")
            /\ pc' = "llm_return"
       ELSE /\ pc' = "crashed"
            /\ UNCHANGED <<sent, result, log>>
    /\ UNCHANGED <<docs, searched, contents, context, template, prompt>>
    /\ UNCHANGED <<model, db, query, reads, stdout>>
    /\ UNCHANGED <<bnbVars, udVars, rrVars>>

-----------------------------------------------------------------------------
(* __main__.                                                               *)

NoPrompt == [ok |-> FALSE, pieces |-> <<>>]

\* model = init_model(init_bnb_config()): the call with the defaults
MainStart ==
    /\ pc = "main"
    /\ bnb_args' = BnbDefaults
    /\ pc' = "bnb_check_load_in_4bit"
    /\ UNCHANGED <<bnb_config, udVars, mainVars, llmVars, rrVars>>

\* init_model(bnb_config) and the embeddings
InitModelStep ==
    /\ pc = "bnb_returned"
    /\ model' = [built |-> TRUE, quantization_config |-> bnb_config.returned]
    /\ pc' = "ask_directory"
    /\ UNCHANGED <<db, query, reads, stdout, result>>
    /\ UNCHANGED <<bnbVars, udVars, llmVars, rrVars>>

\* docs = user_documents(input(...)): the path typed and the call
AskDirectory ==
    /\ pc = "ask_directory"
    /\ directory' \in MainDirectories
    /\ pc' = "ud_glob"
    /\ UNCHANGED <<ext_i, files, file_i, documents, loads, chunked>>
    /\ UNCHANGED <<bnbVars, mainVars, llmVars, rrVars>>

\* db = FAISS.from_documents(docs, embeddings)
IndexStep ==
    /\ pc = "ud_return"
    /\ db' = [built |-> TRUE, docs |-> chunked]
    /\ pc' = "read_query"
    /\ UNCHANGED <<model, query, reads, stdout, result>>
    /\ UNCHANGED <<bnbVars, udVars, llmVars, rrVars>>

\* query = input(...), before the loop and at the end of its body; the locals
\* of the last call of llm are gone
ReadQuery ==
    /\ pc = "read_query"
    /\ reads < MaxQueries
    /\ query' \in Queries
    /\ reads' = reads + 1
    /\ docs' = <<>> /\ contents' = <<>> /\ context' = <<>> /\ template' = <<>>
    /\ prompt' = NoPrompt /\ sent' = <<>> /\ log' = <<>>
    /\ scores' = <<>> /\ sorted_indices' = <<>> /\ top3_indices' = <<>>
    /\ pc' = "loop_test"
    /\ UNCHANGED <<model, db, stdout, result, searched>>
    /\ UNCHANGED <<bnbVars, udVars>>

\* query == "exit"
ExitTyped == query = Exit

\* while query != "exit": result = llm(query, db, model)
LoopTest ==
    /\ pc = "loop_test"
    /\ pc' = IF ~ExitTyped THEN "llm_search" ELSE "done"
    /\ UNCHANGED <<bnbVars, udVars, mainVars, llmVars, rrVars>>

\* print(result)
PrintStep ==
    /\ pc = "llm_return"
    /\ stdout' = Append(stdout, result)
    /\ pc' = "read_query"
    /\ UNCHANGED <<model, db, query, reads, result>>
    /\ UNCHANGED <<bnbVars, udVars, llmVars, rrVars>>

-----------------------------------------------------------------------------
(* The specifications.                                                     *)

\* nothing is bound yet
BnbUnbound == bnb_args = BnbDefaults /\ bnb_config = BnbPending

UdUnbound ==
    /\ directory = {} /\ ext_i = 0 /\ files = <<>> /\ file_i = 0
    /\ documents = <<>> /\ loads = <<>> /\ chunked = <<>>

MainUnbound ==
    /\ model = [built |-> FALSE, quantization_config |-> <<>>]
    /\ db = [built |-> FALSE, docs |-> <<>>]
    /\ query = <<>> /\ reads = 0 /\ stdout = <<>> /\ result = <<>>

LlmUnbound ==
    /\ docs = <<>> /\ searched = <<>> /\ contents = <<>> /\ context = <<>>
    /\ template = <<>> /\ prompt = NoPrompt /\ sent = <<>> /\ log = <<>>

RrUnbound == scores = <<>> /\ sorted_indices = <<>> /\ top3_indices = <<>>

Init ==
    /\ pc = "main"
    /\ BnbUnbound /\ UdUnbound /\ MainUnbound /\ LlmUnbound /\ RrUnbound

BnbStep ==
    \/ BnbCheckLoadIn4bit
    \/ BnbCheckQuantType
    \/ BnbCheckDoubleQuant
    \/ BnbCheckComputeDtype
    \/ BnbConstruct

UserDocumentsStep == GlobStep \/ LoadStep \/ SplitStep

LlmStep ==
    \/ SimilaritySearchStep
    \/ PreRerankStep
    \/ RerankScoreStep
    \/ RerankSortStep
    \/ TemplateStep
    \/ InvokeStep

\* everything but the user's typing
ProgramStep ==
    \/ MainStart
    \/ BnbStep
    \/ InitModelStep
    \/ UserDocumentsStep
    \/ IndexStep
    \/ LoopTest
    \/ LlmStep
    \/ PrintStep

Next == ProgramStep \/ AskDirectory \/ ReadQuery

\* the interactive program; the interpreter runs the program whenever it can
Spec == Init /\ [][Next]_vars /\ WF_vars(ProgramStep)

-----------------------------------------------------------------------------
(* Each function on its own, called with any arguments of a bounded set.   *)

\* init_bnb_config(load_in_4bit, bnb_4bit_quant_type, ...)
InitBnb ==
    /\ pc = "bnb_check_load_in_4bit"
    /\ bnb_args \in BnbArgSets
    /\ bnb_config = BnbPending
    /\ UdUnbound /\ MainUnbound /\ LlmUnbound /\ RrUnbound

SpecBnb == InitBnb /\ [][BnbStep]_vars

\* user_documents(directory)
InitDocs ==
    /\ pc = "ud_glob"
    /\ directory \in Directories
    /\ ext_i = 0 /\ files = <<>> /\ file_i = 0
    /\ documents = <<>> /\ loads = <<>> /\ chunked = <<>>
    /\ BnbUnbound /\ MainUnbound /\ LlmUnbound /\ RrUnbound

SpecDocs == InitDocs /\ [][UserDocumentsStep]_vars

SomeTexts == {<<>>, <<"a">>, <<"b", "c">>}

SomeDocs == [page_content : SomeTexts, source : {APdf}]

DocLists == UNION {[1..n -> SomeDocs] : n \in 0..MaxDocs}

\* pre_rerank(docs, question)
InitPre ==
    /\ pc = "llm_pre_rerank"
    /\ docs \in DocLists
    /\ query \in {<<>>, <<"q">>, <<"b", "c">>}
    /\ model = [built |-> FALSE, quantization_config |-> <<>>]
    /\ db = [built |-> FALSE, docs |-> <<>>]
    /\ reads = 0 /\ stdout = <<>> /\ result = <<>>
    /\ searched = <<>> /\ contents = <<>> /\ context = <<>>
    /\ template = <<>> /\ prompt = NoPrompt /\ sent = <<>> /\ log = <<>>
    /\ BnbUnbound /\ UdUnbound /\ RrUnbound

SpecPre == InitPre /\ [][PreRerankStep]_vars

\* n candidates; the fourth has the text of the first
Candidates(n) ==
    [i \in 1..n |-> [page_content |-> <<"t", Digit((i - 1) % 3)>>, source |-> APdf]]

\* rerank(contents)
InitRerank ==
    /\ pc = "rerank_score"
    /\ contents \in {pre_rerank(Candidates(n), <<"q">>) : n \in 0..MaxCand}
    /\ docs = <<>> /\ searched = <<>> /\ context = <<>>
    /\ template = <<>> /\ prompt = NoPrompt /\ sent = <<>> /\ log = <<>>
    /\ BnbUnbound /\ UdUnbound /\ MainUnbound /\ RrUnbound

SpecRerank == InitRerank /\ [][RerankScoreStep \/ RerankSortStep]_vars

Texts == StrsUpTo({"{", "}", "a"}, MaxLen) \cup {<<"{">> \o QuestionKey \o <<"}">>}

\* llm from the prompt assembly on, for any context and question
InitPrompt ==
    /\ pc = "llm_template"
    /\ context \in Texts
    /\ query \in Texts
    /\ model = [built |-> FALSE, quantization_config |-> <<>>]
    /\ db = [built |-> FALSE, docs |-> <<>>]
    /\ reads = 0 /\ stdout = <<>> /\ result = <<>>
    /\ docs = <<>> /\ searched = <<>> /\ contents = <<>>
    /\ template = <<>> /\ prompt = NoPrompt /\ sent = <<>> /\ log = <<>>
    /\ BnbUnbound /\ UdUnbound /\ RrUnbound

SpecPrompt == InitPrompt /\ [][TemplateStep \/ InvokeStep]_vars

-----------------------------------------------------------------------------
(* The properties.                                                         *)

IsPrefix(s, t) == Len(s) <= Len(t) /\ s = SubSeq(t, 1, Len(s))

Range(s) == {s[i] : i \in 1..Len(s)}

Distinct(s) == \A i, j \in 1..Len(s) : i # j => s[i] # s[j]

LlmOrder == <<"retrieve", "pre_rerank", "rerank", "prompt", "model">>

\* C1: the documents are loaded and indexed before the first query is read;
\* the steps taken for a query are a prefix of retrieve, pre_rerank, rerank,
\* prompt assembly, model invocation, in that order, none is taken for the
\* query "exit", and the model is invoked only with all five steps taken.
C1_StepsInOrder ==
    /\ reads > 0 =>
          /\ model.built
          /\ ext_i = Len(file_extensions) /\ file_i = Len(files)
          /\ chunked = SplitDocuments(documents)
          /\ db = [built |-> TRUE, docs |-> chunked]
    /\ IsPrefix(log, LlmOrder)
    /\ log # <<>> => query # Exit
    /\ sent # <<>> => log = LlmOrder /\ context = ConcatContents(<<>>, contents, top3_indices)

\* C1: a second query went through all five steps
C1_Witness ==
    /\ reads = 2 /\ Len(stdout) = 1
    /\ pc = "llm_return"
    /\ log = LlmOrder

\* C2: once the prompt of a query is assembled, its context is the
\* concatenation of the page contents of at most 3 distinct documents among
\* the at most 25 the similarity search returned for that same query from the
\* index, and that context is what stands in the template.
C2_ContextFromRetrieved ==
    template # <<>> =>
        /\ Len(docs) <= 25
        /\ Range(docs) \subseteq Range(db.docs)
        /\ searched # <<>> /\ searched[Len(searched)] = query
        /\ Len(searched) = reads
        /\ Len(top3_indices) <= 3
        /\ Distinct(top3_indices)
        /\ \A i \in 1..Len(top3_indices) :
              top3_indices[i] \in 0..(Len(docs) - 1)
        /\ context = Flatten([i \in 1..Len(top3_indices) |->
                                 docs[top3_indices[i] + 1].page_content])
        /\ template = TemplateHead \o context \o TemplateMiddle \o query
                         \o TemplateTail

\* C2: the second query's prompt went to the model, the index holding more
\* chunks than one search returns
C2_Witness ==
    /\ reads = 2
    /\ sent # <<>>
    /\ Len(db.docs) > 25 /\ Len(docs) = 25
    /\ Len(top3_indices) = 3

ListedExtensions ==
    {<<".", "p", "d", "f">>, <<".", "d", "o", "c", "x">>, <<".", "d", "o", "c">>,
     <<".", "t", "x", "t">>, <<".", "x", "l", "s", "x">>, <<".", "p", "p", "t", "x">>}

HasListedExtension(name) == \E e \in ListedExtensions : EndsWith(name, e)

\* the position of the name's extension in pdf, docx, doc, txt, xlsx, pptx
ExtensionRank(name) ==
    CASE EndsWith(name, <<".", "p", "d", "f">>)      -> 1
      [] EndsWith(name, <<".", "d", "o", "c", "x">>) -> 2
      [] EndsWith(name, <<".", "d", "o", "c">>)      -> 3
      [] EndsWith(name, <<".", "t", "x", "t">>)      -> 4
      [] EndsWith(name, <<".", "x", "l", "s", "x">>) -> 5
      [] EndsWith(name, <<".", "p", "p", "t", "x">>) -> 6
      [] OTHER                                       -> 0

ExpectedLoader(name) ==
    <<"none", "PyPDFLoader", "Docx2txtLoader", "Docx2txtLoader", "TextLoader",
      "UnstructuredExcelLoader", "UnstructuredPowerPointLoader">>[ExtensionRank(name) + 1]

LoadsOf(name) == {i \in 1..Len(loads) : loads[i].file = name}

C4_PairsInOrder ==
    pc = "rerank_score" =>
        /\ Len(contents) = Len(docs)
        /\ \A i \in 1..Len(docs) :
              /\ Len(contents[i]) = 2
              /\ contents[i][1] = query
              /\ contents[i][2] = docs[i].page_content

\* C4: a list of documents with different page contents was paired
C4_Witness ==
    /\ pc = "rerank_score"
    /\ Len(docs) >= 2
    /\ docs[1].page_content # docs[Len(docs)].page_content
    /\ Len(contents) = Len(docs)


IsBool(value) == value.type = "bool"
IsStr(value) == value.type \in {"str", "numpy.str_"}
IsType(value) == value.type = "type"

\* the first argument, in the order of the parameters, that fails its check
FirstOffender ==
    IF ~IsBool(bnb_args.load_in_4bit) THEN 1
    ELSE IF ~IsStr(bnb_args.bnb_4bit_quant_type) THEN 2
    ELSE IF ~IsBool(bnb_args.bnb_4bit_use_double_quant) THEN 3
    ELSE IF ~(IsType(bnb_args.bnb_4bit_compute_dtype)
              \/ IsStr(bnb_args.bnb_4bit_compute_dtype)) THEN 4
    ELSE 0

BnbMessages ==
    <<"load_in_4bit must be a boolean value.",
      "bnb_4bit_quant_type must be a string.",
      "bnb_4bit_use_double_quant must be a boolean value.",
      "bnb_4bit_compute_dtype must be a valid data type.">>

\* C5: init_bnb_config ends with a ValueError, and no BitsAndBytesConfig
\* constructed, exactly when an argument fails its check, the message being
\* that of the first such argument; otherwise it returns the one config it
\* constructed, from the four arguments; nothing is constructed before the
\* checks are over.
C5_ValidationInOrder ==
    /\ pc \notin {"bnb_raised", "bnb_returned"} => bnb_config.constructed = <<>>
    /\ pc \in {"bnb_raised", "bnb_returned"} =>
          IF FirstOffender # 0
          THEN /\ pc = "bnb_raised"
               /\ bnb_config.outcome = "ValueError"
               /\ bnb_config.message = BnbMessages[FirstOffender]
               /\ bnb_config.constructed = <<>>
               /\ bnb_config.returned = <<>>
          ELSE /\ pc = "bnb_returned"
               /\ bnb_config.outcome = "returned"
               /\ bnb_config.constructed = <<bnb_args>>
               /\ bnb_config.returned = <<bnb_args>>

\* C5: two arguments are bad and the earlier one is reported
C5_Witness ==
    /\ pc = "bnb_raised"
    /\ bnb_args.load_in_4bit = PyTrue
    /\ bnb_args.bnb_4bit_quant_type = PyNpStr
    /\ bnb_args.bnb_4bit_use_double_quant = PyOne
    /\ bnb_args.bnb_4bit_compute_dtype = PyDtype
    /\ bnb_config.message = "bnb_4bit_use_double_quant must be a boolean value."

\* C6: rerank returns the concatenation of the second elements of min(3, n)
\* distinct candidates, each index valid, in the order of non-increasing
\* score, every candidate selected scoring at least as high as every one
\* left out.
C6_TopThreeByScore ==
    pc = "llm_template" =>
        LET n == Len(contents)
            selected == Range(top3_indices)
        IN  /\ Len(scores) = n
            /\ Len(top3_indices) = IF n < 3 THEN n ELSE 3
            /\ Distinct(top3_indices)
            /\ selected \subseteq 0..(n - 1)
            /\ \A i \in 1..(Len(top3_indices) - 1) :
                  scores[top3_indices[i] + 1] >= scores[top3_indices[i + 1] + 1]
            /\ \A i \in selected : \A j \in (0..(n - 1)) \ selected :
                  scores[i + 1] >= scores[j + 1]
            /\ context = Flatten([i \in 1..Len(top3_indices) |->
                                     contents[top3_indices[i] + 1][2]])

\* C6: more than three candidates, two of them with the same score, one of
\* these selected and the other left out
C6_Witness ==
    /\ pc = "llm_template"
    /\ Len(contents) > 3
    /\ \E i \in Range(top3_indices) :
          \E j \in (0..(Len(contents) - 1)) \ Range(top3_indices) :
              scores[i + 1] = scores[j + 1]

\* C7 as stated, its safety part: the program has stopped only with "exit"
\* typed; no step of llm is taken for the query "exit"; and when the next
\* query is awaited, every query read so far has had its one answer printed.
C7_StopsOnlyOnExit ==
    /\ pc \in {"done", "crashed"} => query = Exit
    /\ query = Exit => log = <<>> /\ sent = <<>>
    /\ pc = "read_query" /\ db.built => Len(stdout) = reads
    /\ Len(sent) <= 1

\* C7 where no prompt assembly fails: the same, and "exit" typed leads to
\* the end of the program
C7_UnlessCrashed ==
    /\ [](pc = "done" => query = Exit)
    /\ [](query = Exit => log = <<>> /\ sent = <<>>)
    /\ [](pc = "read_query" /\ db.built => Len(stdout) = reads)
    /\ [](pc = "llm_return" => Len(sent) = 1)
    /\ ((pc = "loop_test" /\ query = Exit) ~> pc = "done")
    /\ ((pc = "loop_test" /\ query # Exit) ~> pc \in {"read_query", "crashed"})

\* C8 as stated: prompt assembly never fails, the template holds no
\* variable, and the text the model receives holds the context and, after
\* it, the question, both verbatim.
C8_PromptVerbatim ==
    /\ pc # "crashed"
    /\ pc \in {"llm_invoke", "llm_return"} =>
          prompt.ok /\ InputVariables(prompt.pieces) = {}
    /\ pc = "llm_return" =>
          \E p \in 1..Len(sent[1]) : \E q \in (p + Len(context))..(Len(sent[1]) + 1) :
              /\ OccursAt(sent[1], context, p)
              /\ OccursAt(sent[1], query, q)

\* C8 for a context and a question without braces
C8_WithoutBraces ==
    (Range(context) \cup Range(query)) \cap {"{", "}"} = {} =>
        /\ pc # "crashed"
        /\ pc = "llm_return" =>
              sent[1] = HumanPrefix \o TemplateHead \o context \o TemplateMiddle
                           \o query \o TemplateTail

====
